---- MODULE Spec2Model ----
(***************************************************************************)
(* Model of the settings resolver, the title formatter and the profile     *)
(* registry of the math-callout plugin.                                     *)
(*                                                                          *)
(* Strings are TLA+ strings; a configuration object is a function from the *)
(* set of its own keys (option names) to strings; the profile table is a   *)
(* function from its keys (profile ids) to profiles.  JavaScript's         *)
(* `undefined` and `null` are the two strings below, which no text field   *)
(* of the model ever holds.                                                 *)
(***************************************************************************)
EXTENDS Integers, Sequences, FiniteSets, TLC

VARIABLES
    settings,           \* plugin.settings: path -> partial configuration
    DEFAULT_SETTINGS,   \* the DEFAULT_SETTINGS object (objects are mutable)
    rootAliased,        \* settings["/"] is the DEFAULT_SETTINGS object itself
    profiles,           \* plugin.extraSettings.profiles: id -> Profile
    modal,              \* the profile dialog on top ("none": the settings pane)
    target,             \* key of the profile the Edit/Delete dialog was opened on
    addText,            \* AddProfileModal's local `id`
    newProfileID,       \* UpdateProfileModal's local `newProfileID`
    affected,           \* UpdateProfileModal.affected
    nOps,               \* handlers run so far that changed a profile or a setting
    last,               \* the handler that ran last, with its inputs
    data,               \* the blob the host stores for the plugin (loadData/saveData)
    activeFile,         \* the file of the active markdown view (null: no such view)
    fileCache,          \* the host's metadata cache: file -> structural cache, if any
    resolved,           \* the object the last resolveSettings call returned
    title               \* the value the last formatTitleWithoutSubtitle call returned

vars == <<settings, DEFAULT_SETTINGS, rootAliased, profiles, modal, target, addText,
          newProfileID, affected, nOps, last, data, activeFile, fileCache, resolved,
          title>>

uiVars == <<modal, target, addText, newProfileID, affected>>
callVars == <<resolved, title>>
settingsVars == <<settings, DEFAULT_SETTINGS, rootAliased>>
counterVars == <<nOps>>
viewVars == <<activeFile, fileCache>>
hostVars == <<data, activeFile, fileCache>>

(***************************************************************************)
(* Bounds of the model.                                                     *)
(***************************************************************************)
\* The number of handlers of one run that change a profile or a setting.
MaxOps == 3

\* The numeral converters are applied to the numbers -MaxNegative..MaxNumber.
MaxNumber == 3999
MaxNegative == 30
\* The alph converters are compared with one another on 1..MaxAlph.
MaxAlph == 60

(***************************************************************************)
(* JavaScript values.                                                       *)
(***************************************************************************)
undefined == "#undefined"
null == "#null"
TypeError == "#TypeError"

\* String(v), as used for a property key: the key of `undefined` is "undefined".
ToPropertyKey(v) == IF v = undefined THEN "undefined" ELSE v

\* Truthiness of a string-or-undefined value.
Truthy(v) == v # undefined /\ v # null /\ v # ""

CharAt(s, i) == SubSeq(s, i, i)

\* s.slice(n) for n >= 0.
Slice(s, n) == IF n >= Len(s) THEN "" ELSE SubSeq(s, n + 1, Len(s))

\* s.includes(t)
Includes(s, t) ==
    \E i \in 1..(Len(s) - Len(t) + 1) : SubSeq(s, i, i + Len(t) - 1) = t

Digits == <<"0", "1", "2", "3", "4", "5", "6", "7", "8", "9">>
DigitChars == {Digits[i] : i \in 1..10}
DigitValue(c) == (CHOOSE i \in 1..10 : Digits[i] = c) - 1

\* +numStr for a string of decimal digits.
RECURSIVE ToNumber(_)
ToNumber(s) ==
    IF Len(s) = 0 THEN 0
    ELSE 10 * ToNumber(SubSeq(s, 1, Len(s) - 1)) + DigitValue(CharAt(s, Len(s)))

\* String(n) for an integer n >= 0.
RECURSIVE NumberToString(_)
NumberToString(n) ==
    IF n < 10 THEN Digits[n + 1]
    ELSE NumberToString(n \div 10) \o Digits[(n % 10) + 1]

\* Object.assign(target, source): own keys of source are copied over target;
\* a source of `undefined` copies nothing.
ObjectAssign(tgt, src) ==
    [k \in (DOMAIN tgt) \cup (DOMAIN src) |->
        IF k \in DOMAIN src THEN src[k] ELSE tgt[k]]

\* delete obj[key]
DeleteKey(obj, key) == [k \in (DOMAIN obj) \ {key} |-> obj[k]]

\* obj[key], undefined when the key is absent.
Get(obj, key) == IF key \in DOMAIN obj THEN obj[key] ELSE undefined

EmptyObject == <<>>

(***************************************************************************)
(* The folder tree (TAbstractFile, TFolder, TFile of the host).             *)
(***************************************************************************)
VAULT_ROOT == "/"

Paths == {"/", "a", "a/x.md", "y.md"}

Parent(p) ==
    CASE p = "/" -> null
      [] p = "a" -> "/"
      [] p = "a/x.md" -> "a"
      [] p = "y.md" -> "/"

IsFolder(p) == p \in {"/", "a"}
IsRoot(p) == p = VAULT_ROOT

\* The markdown files of the vault, and the metadata cache once the host has
\* indexed them: a structural cache belongs to one file and has a version.
MarkdownFiles == {p \in Paths : ~IsFolder(p)}
FileCacheOf(file, version) == [present |-> TRUE, file |-> file, version |-> version]
\* getFileCache returning null.
NoFileCache == [present |-> FALSE]
InitialFileCache == [f \in MarkdownFiles |-> FileCacheOf(f, 0)]

\* getAncestors: the loop pushes file, file.parent, ... until the parent is
\* null (or at once when file is the root), then reverses.
RECURSIVE AncestorsLoop(_, _, _)
AncestorsLoop(file, ancestor, ancestors) ==
    IF ancestor = null THEN ancestors
    ELSE LET pushed == Append(ancestors, ancestor)
         IN IF IsFolder(file) /\ IsRoot(file) THEN pushed
            ELSE AncestorsLoop(file, Parent(ancestor), pushed)

Reverse(s) == [i \in 1..Len(s) |-> s[Len(s) + 1 - i]]

\* A variant that forgets ancestors.reverse(): the file first, the root last.
getAncestorsUnreversed(file) == AncestorsLoop(file, file, <<>>)

getAncestors(file) == Reverse(AncestorsLoop(file, file, <<>>))

(***************************************************************************)
(* Configurations.                                                          *)
(***************************************************************************)
\* The options of a MathContextSettings object.
Options ==
    {"lang", "mathCalloutStyle", "mathCalloutFontInherit", "titleSuffix", "labelPrefix",
     "rename", "numberPrefix", "numberSuffix", "numberInit", "numberStyle",
     "numberDefault", "refFormat", "eqNumberPrefix", "eqNumberSuffix", "eqNumberInit",
     "eqNumberStyle", "lineByLine", "eqRefPrefix", "eqRefSuffix", "profile"}

\* The DEFAULT_SETTINGS object as the module that defines it leaves it.
InitialDefaultSettings ==
    [k \in Options |->
        CASE k = "lang" -> "en"
          [] k = "mathCalloutStyle" -> "custom"
          [] k = "mathCalloutFontInherit" -> "false"
          [] k = "titleSuffix" -> "."
          [] k = "labelPrefix" -> ""
          [] k = "rename" -> "{}"
          [] k = "numberPrefix" -> ""
          [] k = "numberSuffix" -> ""
          [] k = "numberInit" -> "1"
          [] k = "numberStyle" -> "arabic"
          [] k = "numberDefault" -> "auto"
          [] k = "refFormat" -> "Type + number (+ title)"
          [] k = "eqNumberPrefix" -> "("
          [] k = "eqNumberSuffix" -> ")"
          [] k = "eqNumberInit" -> "1"
          [] k = "eqNumberStyle" -> "arabic"
          [] k = "lineByLine" -> "true"
          [] k = "eqRefPrefix" -> ""
          [] k = "eqRefSuffix" -> ""
          [] k = "profile" -> "English"]

\* plugin.settings[path] as Object.assign reads it: nothing to copy when the
\* path has no entry.  While rootAliased holds, settings["/"] and
\* DEFAULT_SETTINGS are one object and the model keeps the two equal.
SettingsAt(path) == IF path \in DOMAIN settings THEN settings[path] ELSE EmptyObject

\* The walk of resolveSettings over the ancestor chain.
RECURSIVE AssignAncestors(_, _, _)
AssignAncestors(resolvedSettings, ancestors, i) ==
    IF i > Len(ancestors) THEN resolvedSettings
    ELSE AssignAncestors(ObjectAssign(resolvedSettings, SettingsAt(ancestors[i])),
                         ancestors, i + 1)

\* A variant that starts the walk from an empty object instead of a copy of
\* DEFAULT_SETTINGS.
resolveSettingsWithoutDefault(blockSettings, currentFile) ==
    ObjectAssign(AssignAncestors(EmptyObject, getAncestors(currentFile), 1), blockSettings)

\* A variant that merges the block settings before the ancestor chain.
resolveSettingsBlockFirst(blockSettings, currentFile) ==
    AssignAncestors(ObjectAssign(ObjectAssign(EmptyObject, DEFAULT_SETTINGS), blockSettings),
                    getAncestors(currentFile), 1)

\* resolveSettings(settings, plugin, currentFile); the argument `settings` is
\* <<>> when the caller passes undefined.
resolveSettings(blockSettings, currentFile) ==
    LET start == ObjectAssign(EmptyObject, DEFAULT_SETTINGS)
        walked == AssignAncestors(start, getAncestors(currentFile), 1)
    IN ObjectAssign(walked, blockSettings)

(***************************************************************************)
(* Numeral converters (CONVERTER).                                          *)
(***************************************************************************)
RangeError == "#RangeError"

ROMAN == <<"", "C", "CC", "CCC", "CD", "D", "DC", "DCC", "DCCC", "CM",
           "", "X", "XX", "XXX", "XL", "L", "LX", "LXX", "LXXX", "XC",
           "", "I", "II", "III", "IV", "V", "VI", "VII", "VIII", "IX">>

ALPH == "ABCDEFGHIJKLMNOPQRSTUVWXYZ"
LowerAlph == "abcdefghijklmnopqrstuvwxyz"

\* String(num) for an integer.
NumToString(num) == IF num < 0 THEN "-" \o NumberToString(-num) ELSE NumberToString(num)

\* c.toLowerCase() for one character.
LowerChar(c) ==
    IF \E i \in 1..26 : CharAt(ALPH, i) = c
    THEN CharAt(LowerAlph, CHOOSE i \in 1..26 : CharAt(ALPH, i) = c)
    ELSE c

RECURSIVE toLowerCase(_)
toLowerCase(s) ==
    IF Len(s) = 0 THEN ""
    ELSE toLowerCase(SubSeq(s, 1, Len(s) - 1)) \o LowerChar(CharAt(s, Len(s)))

\* n M's: Array(n + 1).join("M").
RECURSIVE RepeatM(_)
RepeatM(n) == IF n <= 0 THEN "" ELSE "M" \o RepeatM(n - 1)

\* A variant of the table lookup that reads the units row for every digit.
RomanPartUnits(c, i) == IF c \in DigitChars THEN ROMAN[DigitValue(c) + 21] ELSE ""

\* ROMAN[+digit + i * 10] ?? "", for the character popped from the digit list
\* ("" stands for the undefined a pop of the empty list returns).
RomanPart(c, i) == IF c \in DigitChars THEN ROMAN[DigitValue(c) + (i * 10) + 1] ELSE ""

PopAt(s, k) == IF Len(s) >= k THEN CharAt(s, Len(s) + 1 - k) ELSE ""

toRomanUpper(num) ==
    LET digits == NumToString(num)
        roman == RomanPart(PopAt(digits, 3), 0) \o RomanPart(PopAt(digits, 2), 1)
                 \o RomanPart(PopAt(digits, 1), 2)
        rest == IF Len(digits) > 3 THEN SubSeq(digits, 1, Len(digits) - 3) ELSE ""
    IN  CASE rest = "" -> roman
          [] rest = "-" -> RangeError                      \* Array(NaN)
          [] CharAt(rest, 1) = "-" ->
                IF ToNumber(Slice(rest, 1)) = 1 THEN roman  \* Array(0)
                ELSE RangeError                             \* Array(negative)
          [] OTHER -> RepeatM(ToNumber(rest)) \o roman

toRomanLower(num) ==
    IF toRomanUpper(num) = RangeError THEN RangeError ELSE toLowerCase(toRomanUpper(num))

\* n.toString(26) for n >= 0, as the list of its digit values.
RECURSIVE Base26(_)
Base26(n) == IF n < 26 THEN <<n>> ELSE Append(Base26(n \div 26), n % 26)

RECURSIVE AlphJoin(_)
AlphJoin(ds) ==
    IF Len(ds) = 0 THEN ""
    ELSE AlphJoin(SubSeq(ds, 1, Len(ds) - 1)) \o CharAt(ALPH, ds[Len(ds)] + 1)

\* (num - 1).toString(26), each character c mapped to ALPH[parseInt(c, 26)]; the
\* "-" of a negative number maps to undefined, which join("") renders as "".
toAlphUpper(num) ==
    LET m == num - 1
    IN AlphJoin(Base26(IF m < 0 THEN -m ELSE m))

toAlphLower(num) == toLowerCase(toAlphUpper(num))

NumberStyles == {"arabic", "alph", "Alph", "roman", "Roman"}

\* CONVERTER[style](num)
CONVERTER(style, num) ==
    CASE style = "arabic" -> NumToString(num)
      [] style = "alph" -> toAlphLower(num)
      [] style = "Alph" -> toAlphUpper(num)
      [] style = "roman" -> toRomanLower(num)
      [] style = "Roman" -> toRomanUpper(num)
      [] OTHER -> TypeError                                \* CONVERTER[style] is undefined

(***************************************************************************)
(* Profiles.                                                                *)
(***************************************************************************)
\* The closed set of theorem-like environment kinds.
THEOREM_LIKE_ENV_IDs ==
    {"axiom", "definition", "lemma", "proposition", "theorem", "corollary", "claim",
     "assumption", "example", "exercise", "conjecture", "hypothesis", "remark"}

EnglishBody ==
    [axiom |-> "Axiom", definition |-> "Definition", lemma |-> "Lemma",
     proposition |-> "Proposition", theorem |-> "Theorem", corollary |-> "Corollary",
     claim |-> "Claim", assumption |-> "Assumption", example |-> "Example",
     exercise |-> "Exercise", conjecture |-> "Conjecture", hypothesis |-> "Hypothesis",
     remark |-> "Remark"]

\* The source holds these names in Japanese script; the module language takes
\* ASCII strings only, so each name is written in its romanised reading.
JapaneseBody ==
    [axiom |-> "Kouri", definition |-> "Teigi", lemma |-> "Hodai",
     proposition |-> "Meidai", theorem |-> "Teiri", corollary |-> "Kei",
     claim |-> "Shuchou", assumption |-> "Katei", example |-> "Rei",
     exercise |-> "Enshuu mondai", conjecture |-> "Yosou", hypothesis |-> "Kasetsu",
     remark |-> "Chuu"]

DEFAULT_PROFILES ==
    [k \in {"English", "Japanese"} |->
        IF k = "English"
        THEN [id |-> "English", meta |-> [tags |-> <<"en">>], body |-> EnglishBody]
        ELSE [id |-> "Japanese", meta |-> [tags |-> <<"ja">>], body |-> JapaneseBody]]

(***************************************************************************)
(* The title formatter.                                                     *)
(***************************************************************************)
\* str[key] for a string str: a character for an index within the string,
\* undefined for every other key the model uses (kind names and "undefined";
\* none of them names a member of String.prototype).
StringProperty(str, key) ==
    IF key # "" /\ (\A i \in 1..Len(key) : CharAt(key, i) \in DigitChars)
       /\ ToNumber(key) < Len(str)
    THEN CharAt(str, ToNumber(key) + 1)
    ELSE undefined

\* formatMathCalloutType: profile.body.theorem[settings.type]; reading a property
\* of undefined throws.
formatMathCalloutType(s) ==
    LET key == ToPropertyKey(Get(s, "profile"))
    IN  IF key \notin DOMAIN profiles THEN TypeError
        ELSE LET name == Get(profiles[key].body, "theorem")
             IN IF name = undefined THEN TypeError
                ELSE StringProperty(name, ToPropertyKey(Get(s, "type")))

\* a ?? b
Coalesce(a, b) == IF a = undefined \/ a = null THEN b ELSE a

\* `${v}` / string concatenation of a value that may be undefined.
Str(v) == IF v = undefined THEN "undefined" ELSE v

\* The settings object as formatTitleWithoutSubtitle leaves it: numberInit is
\* assigned on the "auto" path.
SettingsAfterFormat(s) ==
    IF Get(s, "number") = "auto" /\ Get(s, "_index") # undefined
       /\ formatMathCalloutType(s) # TypeError
    THEN ObjectAssign(s, [numberInit |-> Coalesce(Get(s, "numberInit"), "1")])
    ELSE s

\* +v for a decimal string with an optional sign.
SignedToNumber(v) ==
    IF Len(v) > 0 /\ CharAt(v, 1) = "-" THEN 0 - ToNumber(Slice(v, 1)) ELSE ToNumber(v)

\* A variant of the numberString that numbers every block automatically,
\* whatever its number field holds.
NumberStringAlwaysAuto(s) ==
    IF Get(s, "_index") # undefined
    THEN CONVERTER(Coalesce(Get(s, "numberStyle"), Get(DEFAULT_SETTINGS, "numberStyle")),
                   SignedToNumber(s["_index"])
                   + SignedToNumber(Coalesce(Get(s, "numberInit"), "1")))
    ELSE ""

\* The numberString of formatTitleWithoutSubtitle.
NumberString(s) ==
    IF Get(s, "number") = "auto"
    THEN IF Get(s, "_index") # undefined
         THEN LET numberInit == Coalesce(Get(s, "numberInit"), "1")
                  num == SignedToNumber(s["_index"]) + SignedToNumber(numberInit)
                  style == Coalesce(Get(s, "numberStyle"),
                                    Get(DEFAULT_SETTINGS, "numberStyle"))
              IN CONVERTER(style, num)
         ELSE ""
    ELSE s["number"]

\* formatTitleWithoutSubtitle(plugin, settings): the returned title, or the
\* error the call throws.
formatTitleWithoutSubtitle(s) ==
    LET typeName == formatMathCalloutType(s)
    IN  IF typeName = TypeError THEN TypeError
        ELSE IF ~Truthy(Get(s, "number")) THEN typeName
        ELSE LET numberString == NumberString(s)
             IN IF numberString \in {TypeError, RangeError} THEN numberString
                ELSE IF numberString = "" THEN typeName
                ELSE Str(typeName) \o " " \o Str(Get(s, "numberPrefix"))
                     \o numberString \o Str(Get(s, "numberSuffix"))

(***************************************************************************)
(* Loading.                                                                 *)
(***************************************************************************)
NoData == [present |-> FALSE, settings |-> EmptyObject]

\* loadSettings: Object.assign({}, { [VAULT_ROOT]: DEFAULT_SETTINGS }, settings).
\* The root entry is the DEFAULT_SETTINGS object unless the stored settings
\* bring a root entry of their own.
LoadedSettings(loadedData) ==
    ObjectAssign(ObjectAssign(EmptyObject, [p \in {VAULT_ROOT} |-> InitialDefaultSettings]),
                 IF loadedData.present THEN loadedData.settings ELSE EmptyObject)

LoadedRootAliased(loadedData) ==
    ~(loadedData.present /\ VAULT_ROOT \in DOMAIN loadedData.settings)

\* The state after loadSettings(loadedData), with the given profile table and
\* the given dialog on top.
LoadedWith(loadedData, table, dialog) ==
    /\ DEFAULT_SETTINGS = InitialDefaultSettings
    /\ settings = LoadedSettings(loadedData)
    /\ rootAliased = LoadedRootAliased(loadedData)
    /\ profiles = table
    /\ modal = dialog
    /\ target = undefined
    /\ addText = undefined
    /\ newProfileID = undefined
    /\ affected = {}
    /\ nOps = 0
    /\ last = [op |-> "loadSettings"]
    /\ data = loadedData
    /\ activeFile = null
    /\ fileCache = InitialFileCache
    /\ resolved = EmptyObject
    /\ title = undefined

\* The state after construction and loadSettings(loadedData).
Loaded(loadedData) == LoadedWith(loadedData, DEFAULT_PROFILES, "none")

(***************************************************************************)
(* Resolver and formatter calls on stored configurations.                   *)
(***************************************************************************)
\* Partial configurations a stored blob may hold for a location.
StoredNumberStyles == {"roman", "alph"}
StoredProfiles == {"Japanese"}

PartialConfigs ==
    UNION {[ks -> StoredNumberStyles \cup StoredProfiles] : ks \in SUBSET {"numberStyle", "profile"}}

StoredConfigs ==
    {c \in PartialConfigs :
        /\ ("numberStyle" \in DOMAIN c => c["numberStyle"] \in StoredNumberStyles)
        /\ ("profile" \in DOMAIN c => c["profile"] \in StoredProfiles)}

StoredBlobs ==
    {[present |-> TRUE, settings |-> f] :
        f \in UNION {[ps -> StoredConfigs] : ps \in SUBSET Paths}}

\* Block-level settings a caller passes to resolveSettings (<<>>: undefined).
BlockOverrides ==
    {EmptyObject,
     [type |-> "theorem", number |-> "5"],
     [type |-> "theorem", number |-> "auto"],
     [type |-> "theorem", number |-> "A.1", numberPrefix |-> "(", numberSuffix |-> ")"],
     [type |-> "theorem", number |-> "", numberPrefix |-> "(", numberSuffix |-> ")"],
     [type |-> "lemma", number |-> "auto", numberStyle |-> "Roman"]}

\* The sequence index the indexer injects before a title is formatted.
Indices == {undefined, "0", "2"}

InitResolve == \E loadedData \in StoredBlobs : Loaded(loadedData)

\* A variant of the call in which the target of the Object.assign calls is the
\* DEFAULT_SETTINGS object itself instead of a fresh copy of it.
resolveSettingsHeapInPlace(blockSettings, currentFile) ==
    LET result == resolveSettings(blockSettings, currentFile)
    IN [result |-> result,
        DEFAULT_SETTINGS |-> result,
        settings |-> IF rootAliased THEN [settings EXCEPT ![VAULT_ROOT] = result]
                     ELSE settings]

\* The objects after resolveSettings returned: every Object.assign of the call
\* writes to the object created by Object.assign({}, DEFAULT_SETTINGS), so the
\* stored configurations and DEFAULT_SETTINGS are as they were.
resolveSettingsHeap(blockSettings, currentFile) ==
    [result |-> resolveSettings(blockSettings, currentFile),
     DEFAULT_SETTINGS |-> DEFAULT_SETTINGS,
     settings |-> settings]

ResolveCall(blockSettings, currentFile) ==
    /\ last.op = "loadSettings"
    /\ LET heap == resolveSettingsHeap(blockSettings, currentFile)
       IN /\ resolved' = heap.result
          /\ DEFAULT_SETTINGS' = heap.DEFAULT_SETTINGS
          /\ settings' = heap.settings
          /\ last' = [op |-> "resolveSettings", override |-> blockSettings,
                      file |-> currentFile, first |-> heap.result]
    /\ title' = undefined
    /\ UNCHANGED <<rootAliased, profiles, uiVars, counterVars, hostVars>>

\* The caller sets _index on the resolved object and formats its title.
FormatTitleCall(index) ==
    /\ last.op = "resolveSettings"
    /\ LET s == IF index = undefined THEN resolved
                ELSE ObjectAssign(resolved, [_index |-> index])
       IN /\ title' = formatTitleWithoutSubtitle(s)
          /\ resolved' = SettingsAfterFormat(s)
    /\ last' = [op |-> "formatTitle", override |-> last.override, file |-> last.file,
                first |-> last.first, index |-> index]
    /\ UNCHANGED <<settingsVars, profiles, uiVars, counterVars, hostVars>>

\* resolveSettings is called once more, with the arguments of the first call,
\* after a title was formatted from the first result.
ResolveAgain ==
    /\ last.op = "formatTitle"
    /\ LET heap == resolveSettingsHeap(last.override, last.file)
       IN /\ resolved' = heap.result
          /\ DEFAULT_SETTINGS' = heap.DEFAULT_SETTINGS
          /\ settings' = heap.settings
    /\ last' = [op |-> "resolveAgain", override |-> last.override, file |-> last.file,
                first |-> last.first, index |-> last.index]
    /\ UNCHANGED <<rootAliased, profiles, uiVars, counterVars, hostVars, title>>

NextResolve ==
    \/ \E blockSettings \in BlockOverrides, currentFile \in Paths :
          ResolveCall(blockSettings, currentFile)
    \/ \E index \in Indices : FormatTitleCall(index)
    \/ ResolveAgain

SpecResolve == InitResolve /\ [][NextResolve]_vars

(***************************************************************************)
(* The profile registry: helpers.                                           *)
(***************************************************************************)
\* getAffectedFiles: the paths whose stored configuration names the profile
\* (the array is only iterated and its length tested, so it is kept as a set).
getAffectedFiles(setts, oldProfileId) ==
    {path \in DOMAIN setts : Get(setts[path], "profile") = oldProfileId}

\* A variant that tests the arguments of updateProfile the wrong way round and
\* unsets the profile where a new id was given.
updateProfileInverted(setts, paths, newID) ==
    [p \in DOMAIN setts |->
        IF p \notin paths THEN setts[p]
        ELSE IF Truthy(newID) THEN DeleteKey(setts[p], "profile")
        ELSE ObjectAssign(setts[p], [profile |-> newID])]

\* updateProfile: plugin.settings after the loop over paths.
updateProfile(setts, paths, newID) ==
    [p \in DOMAIN setts |->
        IF p \notin paths THEN setts[p]
        ELSE IF Truthy(newID) THEN ObjectAssign(setts[p], [profile |-> newID])
        ELSE DeleteKey(setts[p], "profile")]

NonZeroDigitChars == DigitChars \ {"0"}

\* The index of the last character of the run of digits that starts at j.
RECURSIVE DigitRunEnd(_, _)
DigitRunEnd(s, j) ==
    IF j + 1 <= Len(s) /\ CharAt(s, j + 1) \in DigitChars THEN DigitRunEnd(s, j + 1) ELSE j

\* /\(([1-9][0-9]*)\)/ matches at position i of s.
CopyPatternAt(s, i) ==
    /\ i + 2 <= Len(s)
    /\ CharAt(s, i) = "("
    /\ CharAt(s, i + 1) \in NonZeroDigitChars
    /\ DigitRunEnd(s, i + 1) + 1 <= Len(s)
    /\ CharAt(s, DigitRunEnd(s, i + 1) + 1) = ")"

\* s.match(/\(([1-9][0-9]*)\)/)?.[1] ?? "0": the group of the leftmost match.
CopyPatternGroup(s) ==
    IF \E i \in 1..Len(s) : CopyPatternAt(s, i)
    THEN LET i == CHOOSE i \in 1..Len(s) :
                     CopyPatternAt(s, i) /\ \A j \in 1..(i - 1) : ~CopyPatternAt(s, j)
         IN SubSeq(s, i + 1, DigitRunEnd(s, i + 1))
    ELSE "0"

SetMax(S) == CHOOSE x \in S : \A y \in S : y <= x

\* makeIdOfCopy(oldID, profiles)
makeIdOfCopy(oldID, profs) ==
    LET newId == "Copy of " \o oldID
    IN  IF newId \notin DOMAIN profs THEN newId
        ELSE LET numbers == {ToNumber(CopyPatternGroup(Slice(id, Len(oldID) + 1))) :
                                id \in DOMAIN profs}
                 max == SetMax(numbers)
             IN newId \o " (" \o NumberToString(max + 1) \o ")"

\* profiles[key] = profile
PutProfile(profs, key, profile) ==
    [k \in (DOMAIN profs) \cup {key} |-> IF k = key THEN profile ELSE profs[k]]

\* A variant of the new profile's body that leaves one kind out.
NewBodyIncomplete == [envID \in THEOREM_LIKE_ENV_IDs \ {"remark"} |-> ""]

\* The body AddProfileModal builds: every kind mapped to "".
NewBody == [envID \in THEOREM_LIKE_ENV_IDs |-> ""]

\* The loop of EditProfileModal.onClose over the keys the table had when the
\* loop began: a profile whose id differs from its key is stored under its id,
\* removed from its old key, and the locations naming the old key are updated.
RECURSIVE RekeyLoop(_, _, _)
RekeyLoop(profs, setts, keys) ==
    IF keys = {} THEN [profiles |-> profs, settings |-> setts]
    ELSE LET oldID == CHOOSE k \in keys : TRUE
             rest == keys \ {oldID}
         IN IF oldID \notin DOMAIN profs THEN RekeyLoop(profs, setts, rest)
            ELSE LET newID == profs[oldID].id
                 IN IF newID = oldID THEN RekeyLoop(profs, setts, rest)
                    ELSE RekeyLoop(
                            DeleteKey(PutProfile(profs, ToPropertyKey(newID), profs[oldID]),
                                      oldID),
                            updateProfile(setts, getAffectedFiles(setts, oldID), newID),
                            rest)

\* value.split(","): the pieces between the commas, at least one piece.
RECURSIVE SplitComma(_, _, _)
SplitComma(s, i, piece) ==
    IF i > Len(s) THEN <<piece>>
    ELSE IF CharAt(s, i) = "," THEN <<piece>> \o SplitComma(s, i + 1, "")
    ELSE SplitComma(s, i + 1, piece \o CharAt(s, i))

\* item.trim() (the whitespace typed in the model is the space).
RECURSIVE Trim(_)
Trim(s) ==
    IF Len(s) = 0 THEN s
    ELSE IF CharAt(s, 1) = " " THEN Trim(Slice(s, 1))
    ELSE IF CharAt(s, Len(s)) = " " THEN Trim(SubSeq(s, 1, Len(s) - 1))
    ELSE s

\* value.split(",").map((item) => item.trim())
SplitTags(value) ==
    LET pieces == SplitComma(value, 1, "")
    IN [i \in 1..Len(pieces) |-> Trim(pieces[i])]

\* tag.match(/^[a-z\-]+$/) is not null.
MatchesTagPattern(tag) ==
    /\ Len(tag) > 0
    /\ \A i \in 1..Len(tag) :
          CharAt(tag, i) = "-" \/ \E j \in 1..26 : CharAt(LowerAlph, j) = CharAt(tag, i)

\* A variant of the test of the Tags field that accepts every list.
TagsAcceptedAlways(tags) == TRUE

\* tags.every((tag) => tag.match(/^[a-z\-]+$/) ?? !tag)
TagsAccepted(tags) ==
    \A i \in 1..Len(tags) : MatchesTagPattern(tags[i]) \/ ~Truthy(tags[i])

\* The blob saveSettings hands to saveData when plugin.settings is setts:
\* { settings, excludedFiles } (excluded files are not part of the model).
SavedBlob(setts) == [present |-> TRUE, settings |-> setts]

\* saveSettings() on the current state.
saveSettings == SavedBlob(settings)

\* DEFAULT_SETTINGS after plugin.settings became newSettings: a write to the
\* root entry is a write to DEFAULT_SETTINGS while the two are one object.
DefaultsAfter(newSettings) ==
    IF rootAliased THEN newSettings[VAULT_ROOT] ELSE DEFAULT_SETTINGS

(***************************************************************************)
(* The profile registry: the dialogs' handlers.                             *)
(***************************************************************************)
\* Texts typed into the name field of AddProfileModal / EditProfileModal.
AddTexts == {"", "EN"}
RenameTexts == {"", "EN", "Japanese"}
\* Texts typed into the Tags field of EditProfileModal.
TagTexts == {"", "en, fr-ca", "EN", "de,,", "ok, x1"}
\* Kinds whose display name is edited, and the text typed.
EditedKinds == {"theorem"}
BodyTexts == {"Satz"}
\* Locations whose local settings pane is used to choose a profile.
EditedPaths == {"a"}

\* The "Manage profiles" button of a settings pane.
ManageOpen ==
    /\ modal = "none"
    /\ modal' = "manage"
    /\ last' = [op |-> "ManageOpen"]
    /\ UNCHANGED <<settingsVars, profiles, target, addText, newProfileID, affected,
                   counterVars, hostVars, callVars>>

\* ManageProfileModal.onClose: saveSettings writes the blob; nothing in memory
\* changes.
ManageClose ==
    /\ modal = "manage"
    /\ modal' = "none"
    /\ data' = saveSettings
    /\ last' = [op |-> "ManageClose"]
    /\ UNCHANGED <<settingsVars, profiles, target, addText, newProfileID, affected,
                   counterVars, viewVars, callVars>>

\* The plus button: AddProfileModal.onOpen declares `let id` and reads nothing.
AddOpen ==
    /\ modal = "manage"
    /\ modal' = "add"
    /\ addText' = undefined
    /\ last' = [op |-> "AddOpen"]
    /\ UNCHANGED <<settingsVars, profiles, target, newProfileID, affected,
                   counterVars, hostVars, callVars>>

\* onChange of the name field of AddProfileModal.
AddChange(value) ==
    /\ modal = "add"
    /\ addText' = value
    /\ last' = [op |-> "AddChange"]
    /\ UNCHANGED <<settingsVars, profiles, modal, target, newProfileID, affected,
                   counterVars, hostVars, callVars>>

\* The Add button: stores the new profile under `id`, opens EditProfileModal on
\* it and closes AddProfileModal.
AddClick ==
    /\ modal = "add"
    /\ profiles' = PutProfile(profiles, ToPropertyKey(addText),
                              [id |-> addText, meta |-> [tags |-> <<>>], body |-> NewBody])
    /\ modal' = "edit"
    /\ target' = ToPropertyKey(addText)
    /\ addText' = undefined
    /\ nOps' = nOps + 1
    /\ UNCHANGED hostVars
    /\ last' = [op |-> "AddClick", id |-> addText]
    /\ UNCHANGED <<settingsVars, newProfileID, affected, callVars>>

\* The Cancel button of AddProfileModal.
AddCancel ==
    /\ modal = "add"
    /\ modal' = "manage"
    /\ addText' = undefined
    /\ last' = [op |-> "AddCancel"]
    /\ UNCHANGED <<settingsVars, profiles, target, newProfileID, affected,
                   counterVars, hostVars, callVars>>

\* The pencil button of a profile's row.
EditOpen(id) ==
    /\ modal = "manage"
    /\ id \in DOMAIN profiles
    /\ modal' = "edit"
    /\ target' = id
    /\ last' = [op |-> "EditOpen", id |-> id]
    /\ UNCHANGED <<settingsVars, profiles, addText, newProfileID, affected,
                   counterVars, hostVars, callVars>>

\* onChange of the Name field: this.profile.id = value.
EditNameChange(value) ==
    /\ modal = "edit"
    /\ profiles' = [profiles EXCEPT ![target].id = value]
    /\ nOps' = nOps + 1
    /\ UNCHANGED hostVars
    /\ last' = [op |-> "EditNameChange", id |-> target, value |-> value]
    /\ UNCHANGED <<settingsVars, uiVars, callVars>>

\* onChange of a display-name field: this.profile.body[envID] = value.
EditBodyChange(envID, value) ==
    /\ modal = "edit"
    /\ profiles' = [profiles EXCEPT ![target].body =
                       ObjectAssign(@, [k \in {envID} |-> value])]
    /\ nOps' = nOps + 1
    /\ UNCHANGED hostVars
    /\ last' = [op |-> "EditBodyChange", id |-> target, envID |-> envID]
    /\ UNCHANGED <<settingsVars, uiVars, callVars>>

\* onChange of the Tags field: the list is stored when every item passes the
\* test, a Notice is shown and nothing is stored otherwise.
EditTagsChange(value) ==
    /\ modal = "edit"
    /\ LET tags == SplitTags(value)
       IN IF TagsAccepted(tags)
          THEN /\ profiles' = [profiles EXCEPT ![target].meta.tags = tags]
               /\ last' = [op |-> "EditTagsChange", id |-> target, value |-> value,
                           before |-> profiles[target].meta.tags, notice |-> FALSE]
          ELSE /\ profiles' = profiles
               /\ last' = [op |-> "EditTagsChange", id |-> target, value |-> value,
                           before |-> profiles[target].meta.tags, notice |-> TRUE]
    /\ nOps' = nOps + 1
    /\ UNCHANGED hostVars
    /\ UNCHANGED <<settingsVars, uiVars, callVars>>

\* EditProfileModal.onClose.
EditClose ==
    /\ modal = "edit"
    /\ LET done == RekeyLoop(profiles, settings, DOMAIN profiles)
       IN /\ profiles' = done.profiles
          /\ settings' = done.settings
          /\ DEFAULT_SETTINGS' = DefaultsAfter(done.settings)
    /\ modal' = "manage"
    /\ target' = undefined
    /\ last' = [op |-> "EditClose", id |-> target, newId |-> profiles[target].id,
                referencing |-> getAffectedFiles(settings, target)]
    /\ UNCHANGED <<rootAliased, addText, newProfileID, affected, counterVars, hostVars, callVars>>

\* The copy button of a profile's row.
CopyClick(id) ==
    /\ modal = "manage"
    /\ id \in DOMAIN profiles
    /\ LET newId == makeIdOfCopy(id, profiles)
       IN /\ profiles' = PutProfile(profiles, newId, [profiles[id] EXCEPT !.id = newId])
          /\ last' = [op |-> "CopyClick", id |-> id, newId |-> newId,
                      before |-> DOMAIN profiles]
    /\ nOps' = nOps + 1
    /\ UNCHANGED hostVars
    /\ UNCHANGED <<settingsVars, uiVars, callVars>>

\* The trash button of a profile's row.
DeleteOpen(id) ==
    /\ modal = "manage"
    /\ id \in DOMAIN profiles
    /\ modal' = "confirm"
    /\ target' = id
    /\ last' = [op |-> "DeleteOpen", id |-> id]
    /\ UNCHANGED <<settingsVars, profiles, addText, newProfileID, affected,
                   counterVars, hostVars, callVars>>

\* The Delete button of ConfirmProfileDeletionModal.
DeleteClick ==
    /\ modal = "confirm"
    /\ LET found == getAffectedFiles(settings, target)
       IN IF found # {}
          THEN /\ affected' = found
               /\ newProfileID' = ""          \* dropdown.getValue() of the blank option
               /\ modal' = "update"
               /\ UNCHANGED <<profiles, target, nOps>>
          ELSE /\ profiles' = DeleteKey(profiles, target)
               /\ modal' = "manage"
               /\ target' = undefined
               /\ nOps' = nOps + 1
               /\ UNCHANGED <<affected, newProfileID>>
    /\ last' = [op |-> "DeleteClick", id |-> target]
    /\ UNCHANGED <<settingsVars, addText, hostVars, callVars>>

\* The Cancel button of ConfirmProfileDeletionModal.
DeleteCancel ==
    /\ modal = "confirm"
    /\ modal' = "manage"
    /\ target' = undefined
    /\ last' = [op |-> "DeleteCancel", id |-> target]
    /\ UNCHANGED <<settingsVars, profiles, addText, newProfileID, affected,
                   counterVars, hostVars, callVars>>

\* onChange of the dropdown of UpdateProfileModal.
UpdateChange(value) ==
    /\ modal = "update"
    /\ value \in {""} \cup ((DOMAIN profiles) \ {target})
    /\ newProfileID' = value
    /\ last' = [op |-> "UpdateChange", id |-> target]
    /\ UNCHANGED <<settingsVars, profiles, modal, target, addText, affected,
                   counterVars, hostVars, callVars>>

\* The Confirm button of UpdateProfileModal, and the onClose it runs.
UpdateConfirm ==
    /\ modal = "update"
    /\ LET updated == updateProfile(settings, affected, newProfileID)
       IN /\ settings' = updated
          /\ DEFAULT_SETTINGS' = DefaultsAfter(updated)
    /\ profiles' = DeleteKey(profiles, target)
    /\ modal' = "manage"
    /\ target' = undefined
    /\ newProfileID' = undefined
    /\ affected' = {}
    /\ nOps' = nOps + 1
    /\ UNCHANGED hostVars
    /\ last' = [op |-> "UpdateConfirm", id |-> target, newId |-> newProfileID,
                referencing |-> affected]
    /\ UNCHANGED <<rootAliased, addText, callVars>>

\* The Cancel button of UpdateProfileModal, and the onClose it runs.
UpdateCancel ==
    /\ modal = "update"
    /\ profiles' = DeleteKey(profiles, target)
    /\ modal' = "manage"
    /\ target' = undefined
    /\ newProfileID' = undefined
    /\ affected' = {}
    /\ nOps' = nOps + 1
    /\ UNCHANGED hostVars
    /\ last' = [op |-> "UpdateCancel", id |-> target, referencing |-> affected]
    /\ UNCHANGED <<settingsVars, addText, callVars>>

\* The callback getCallback(name) returns, run on the settings pane of `file`:
\* Object.assign(this.settings, {[name]: value}).
LocalSettingChange(file, name, value) ==
    /\ modal = "none"
    /\ LET changed == PutProfile(settings, file,
                                 ObjectAssign(SettingsAt(file), [k \in {name} |-> value]))
       IN /\ settings' = changed
          /\ DEFAULT_SETTINGS' = DefaultsAfter(changed)
          /\ data' = SavedBlob(changed)
    /\ nOps' = nOps + 1
    /\ UNCHANGED viewVars
    /\ last' = [op |-> "LocalSettingChange", file |-> file, name |-> name]
    /\ UNCHANGED <<rootAliased, profiles, uiVars, callVars>>

\* A stored blob in which the root, the folder a and y.md name the English
\* profile and a/x.md the Japanese one.
ReferencingBlob ==
    [present |-> TRUE,
     settings |->
        [p \in Paths |->
            CASE p = VAULT_ROOT -> InitialDefaultSettings
              [] p = "a" -> [profile |-> "English"]
              [] p = "a/x.md" -> [profile |-> "Japanese"]
              [] p = "y.md" -> [profile |-> "English", numberStyle |-> "roman"]]]

Init == \E loadedData \in {NoData, ReferencingBlob} : Loaded(loadedData)

\* No handler that changes a profile or a setting starts once MaxOps of them ran.
Budget == nOps < MaxOps

Next ==
    \/ ManageOpen
    \/ ManageClose
    \/ Budget /\ AddOpen
    \/ \E value \in AddTexts : AddChange(value)
    \/ AddClick
    \/ AddCancel
    \/ \E id \in DOMAIN profiles : EditOpen(id)
    \/ \E value \in RenameTexts : Budget /\ EditNameChange(value)
    \/ \E envID \in EditedKinds, value \in BodyTexts : Budget /\ EditBodyChange(envID, value)
    \/ \E value \in TagTexts : Budget /\ EditTagsChange(value)
    \/ EditClose
    \/ \E id \in DOMAIN profiles : Budget /\ CopyClick(id)
    \/ \E id \in DOMAIN profiles : Budget /\ DeleteOpen(id)
    \/ DeleteClick
    \/ DeleteCancel
    \/ \E value \in {""} \cup DOMAIN profiles : UpdateChange(value)
    \/ UpdateConfirm
    \/ UpdateCancel
    \/ \E file \in EditedPaths, value \in DOMAIN profiles :
          Budget /\ LocalSettingChange(file, "profile", value)

Spec == Init /\ [][Next]_vars

(***************************************************************************)
(* Copies made from profile tables that adding and renaming can produce.    *)
(***************************************************************************)
CopyPool ==
    {"English", "Japanese", "Copy of English", "Copy of English (1)",
     "Copy of English (2)", "Japanese (7)"}

\* A profile as Add creates it and a rename to `id` leaves it.
NamedProfile(id) == [id |-> id, meta |-> [tags |-> <<>>], body |-> NewBody]

InitCopy ==
    \E ids \in (SUBSET CopyPool) \ {{}} :
        LoadedWith(NoData, [id \in ids |-> NamedProfile(id)], "manage")

NextCopy == \E id \in DOMAIN profiles : Budget /\ CopyClick(id)

SpecCopy == InitCopy /\ [][NextCopy]_vars

(***************************************************************************)
(* Calls of the numeral converters.                                         *)
(***************************************************************************)
Numbers == (0 - MaxNegative)..MaxNumber

\* CONVERTER[style](num), called once on the loaded plugin.
ConvertCall(style, num) ==
    /\ last.op = "loadSettings"
    /\ last' = [op |-> "convert", style |-> style, num |-> num,
                result |-> CONVERTER(style, num)]
    /\ UNCHANGED <<settingsVars, profiles, uiVars, counterVars, hostVars, callVars>>

InitConvert == Loaded(NoData)

NextConvert == \E style \in NumberStyles, num \in Numbers : ConvertCall(style, num)

SpecConvert == InitConvert /\ [][NextConvert]_vars

(***************************************************************************)
(* Labels: the formatter and the preview of the block settings pane.        *)
(***************************************************************************)
\* THEOREM_LIKE_ENVs[kind].prefix: a fixed short tag per kind ("thm" for
\* theorem).
EnvPrefix ==
    [axiom |-> "axm", definition |-> "def", lemma |-> "lem", proposition |-> "prp",
     theorem |-> "thm", corollary |-> "cor", claim |-> "clm", assumption |-> "asm",
     example |-> "exm", exercise |-> "exr", conjecture |-> "cnj", hypothesis |-> "hyp",
     remark |-> "rmk"]

\* A variant of formatLabel that puts the kind's tag first.
formatLabelKindFirst(s) ==
    IF Truthy(Get(s, "label"))
    THEN EnvPrefix[s["type"]] \o ":" \o Str(Get(s, "labelPrefix")) \o s["label"]
    ELSE undefined

\* formatLabel(settings)
formatLabel(s) ==
    IF Truthy(Get(s, "label"))
    THEN Str(Get(s, "labelPrefix")) \o EnvPrefix[s["type"]] \o ":" \o s["label"]
    ELSE undefined

\* The text the block settings pane shows in front of the label field:
\* this.env.prefix + ":" + (this.defaultSettings.labelPrefix ?? "").
LabelPreview(defaultSettings, type) ==
    EnvPrefix[type] \o ":" \o Coalesce(Get(defaultSettings, "labelPrefix"), "")

LabelPrefixes == {"", "geometry:"}
Labels == {undefined, "", "pythagorean-theorem", "pythhagorean-theorem"}
LabelFiles == {"a/x.md", "y.md"}

\* The stored blob in which the folder a has the given label prefix.
PrefixBlob(prefix) ==
    [present |-> TRUE, settings |-> [p \in {"a"} |-> [labelPrefix |-> prefix]]]

InitLabel == \E prefix \in LabelPrefixes : Loaded(PrefixBlob(prefix))

\* A block of the given kind and label is set up in the block settings pane of
\* the file, which shows the preview in front of the label typed, and is then
\* labelled: formatLabel on the settings resolved for the block.
LabelCall(file, type, label) ==
    /\ last.op = "loadSettings"
    /\ LET blockSettings == IF label = undefined THEN [type |-> type]
                            ELSE [type |-> type, label |-> label]
           s == resolveSettings(blockSettings, file)
       IN /\ resolved' = s
          /\ last' = [op |-> "formatLabel", file |-> file, type |-> type, label |-> label,
                      preview |-> LabelPreview(resolveSettings(EmptyObject, file), type)
                                  \o Str(label),
                      result |-> formatLabel(s)]
    /\ UNCHANGED <<settingsVars, profiles, uiVars, counterVars, hostVars, title>>

NextLabel ==
    \E file \in LabelFiles, type \in THEOREM_LIKE_ENV_IDs, label \in Labels :
        LabelCall(file, type, label)

SpecLabel == InitLabel /\ [][NextLabel]_vars

(***************************************************************************)
(* The markdown post-processor for math callouts.                           *)
(***************************************************************************)
SyntaxError == "#SyntaxError"
Quote == "\""

\* The index of the first quote of s at or after i, 0 when there is none.
RECURSIVE NextQuote(_, _)
NextQuote(s, i) ==
    IF i > Len(s) THEN 0
    ELSE IF CharAt(s, i) = Quote THEN i
    ELSE NextQuote(s, i + 1)

\* What a JSON.parse call does: it returns a value or throws an error.
Returned(value) == [error |-> undefined, value |-> value]
Thrown(error) == [error |-> error, value |-> undefined]

\* The members of a JSON object whose keys and values are strings without
\* escapes, read from position i of s; a SyntaxError when the text is not one.
RECURSIVE ParseMembers(_, _, _)
ParseMembers(s, i, obj) ==
    IF i > Len(s) \/ CharAt(s, i) # Quote THEN Thrown(SyntaxError)
    ELSE LET keyEnd == NextQuote(s, i + 1)
         IN IF keyEnd = 0 \/ keyEnd + 2 > Len(s) \/ CharAt(s, keyEnd + 1) # ":"
               \/ CharAt(s, keyEnd + 2) # Quote
            THEN Thrown(SyntaxError)
            ELSE LET valueEnd == NextQuote(s, keyEnd + 3)
                     key == SubSeq(s, i + 1, keyEnd - 1)
                     value == SubSeq(s, keyEnd + 3, valueEnd - 1)
                     member == [k \in {key} |-> value]
                 IN IF valueEnd = 0 \/ valueEnd + 1 > Len(s) THEN Thrown(SyntaxError)
                    ELSE IF CharAt(s, valueEnd + 1) = "}"
                         THEN IF valueEnd + 1 = Len(s)
                              THEN Returned(ObjectAssign(obj, member))
                              ELSE Thrown(SyntaxError)
                    ELSE IF CharAt(s, valueEnd + 1) = ","
                         THEN ParseMembers(s, valueEnd + 2, ObjectAssign(obj, member))
                    ELSE Thrown(SyntaxError)

\* JSON.parse(text) for the texts of CalloutMetadata.
JSONParse(text) ==
    IF Len(text) < 2 \/ CharAt(text, 1) # "{" THEN Thrown(SyntaxError)
    ELSE IF text = "{}" THEN Returned(EmptyObject)
    ELSE ParseMembers(text, 2, EmptyObject)

\* The data-callout and data-callout-metadata attributes of the callouts of a
\* rendered element (null: the attribute is absent).
CalloutTypes == {"math", "Math", "note"}
CalloutMetadata ==
    {null,
     "{\"type\":\"theorem\",\"number\":\"auto\"}",
     "{\"type\":\"lemma\",\"number\":\"auto\"",
     "type=theorem"}
Callouts == [type : CalloutTypes, metadata : CalloutMetadata]

\* The number of callouts of one rendered element.
MaxCallouts == 2

\* The loop of the post-processor from callout `index` on: the callouts given
\* to MathCallout so far, and the error that ended the loop, if one did.
RECURSIVE PostProcessFrom(_, _, _)
PostProcessFrom(callouts, index, rendered) ==
    IF index > Len(callouts) THEN [rendered |-> rendered, error |-> undefined]
    ELSE LET callout == callouts[index]
             isSmartCallout == toLowerCase(callout.type) = "math"
         IN IF Truthy(callout.metadata) /\ isSmartCallout
            THEN IF JSONParse(callout.metadata).error # undefined
                 THEN [rendered |-> rendered, error |-> JSONParse(callout.metadata).error]
                 ELSE PostProcessFrom(callouts, index + 1, rendered \cup {index})
            ELSE PostProcessFrom(callouts, index + 1, rendered)

\* The markdown post-processor runs on an element with the given callouts.
PostProcess(callouts) ==
    /\ last.op = "loadSettings"
    /\ LET pass == PostProcessFrom(callouts, 1, {})
       IN last' = [op |-> "postProcess", callouts |-> callouts,
                   rendered |-> pass.rendered, error |-> pass.error]
    /\ UNCHANGED <<settingsVars, profiles, uiVars, counterVars, hostVars, callVars>>

InitPass == Loaded(NoData)

NextPass ==
    \E n \in 1..MaxCallouts : \E callouts \in [1..n -> Callouts] : PostProcess(callouts)

SpecPass == InitPass /\ [][NextPass]_vars

(***************************************************************************)
(* Properties of the resolver.                                              *)
(***************************************************************************)
\* The tree relation "a is p or an ancestor of p", from the parent links.
RECURSIVE IsAncestorOrSelf(_, _)
IsAncestorOrSelf(a, p) ==
    a = p \/ (Parent(p) # null /\ IsAncestorOrSelf(a, Parent(p)))

RECURSIVE Depth(_)
Depth(p) == IF Parent(p) = null THEN 0 ELSE 1 + Depth(Parent(p))

FullyPopulated(c) == \A k \in Options : k \in DOMAIN c /\ c[k] # undefined

\* A configuration was stored for the location (the root entry that is the
\* DEFAULT_SETTINGS object itself is not a stored configuration).
HasStored(p) == p \in DOMAIN settings /\ ~(p = VAULT_ROOT /\ rootAliased)

\* The ancestors of L, L included, whose stored entry defines option X.
Defining(L, X) ==
    {a \in Paths : IsAncestorOrSelf(a, L) /\ a \in DOMAIN settings /\ X \in DOMAIN settings[a]}

Nearest(L, X) == CHOOSE a \in Defining(L, X) : \A b \in Defining(L, X) : Depth(b) <= Depth(a)

ResolvedWithoutBlock == last.op = "resolveSettings" /\ DOMAIN last.override = {}

\* C1: when the global default is fully populated, resolveSettings(undefined, L)
\* returns an object holding every recognized option, and a location with no
\* stored configuration on its ancestor chain resolves to exactly the default.
C1_ResolveIsTotal ==
    (ResolvedWithoutBlock /\ FullyPopulated(DEFAULT_SETTINGS)) =>
        /\ FullyPopulated(resolved)
        /\ (\A a \in Paths : IsAncestorOrSelf(a, last.file) => ~HasStored(a))
              => resolved = DEFAULT_SETTINGS

\* C1 witness: y.md was resolved with nothing stored at y.md or at the root,
\* while the folder a (not on the chain) stores a numbering style.
C1_Witness ==
    /\ ResolvedWithoutBlock
    /\ last.file = "y.md"
    /\ ~HasStored("y.md") /\ ~HasStored(VAULT_ROOT)
    /\ HasStored("a") /\ Get(SettingsAt("a"), "numberStyle") = "roman"
    /\ resolved = InitialDefaultSettings

\* C2: for every option X, resolveSettings(undefined, L) holds the value stored
\* at the ancestor of L (L included) closest to L that defines X, the global
\* default when none defines X; what a folder stores does not reach a location
\* outside that folder.
C2_NearestAncestorWins ==
    ResolvedWithoutBlock =>
        /\ \A X \in Options :
              Get(resolved, X) =
                 IF Defining(last.file, X) = {} THEN Get(DEFAULT_SETTINGS, X)
                 ELSE settings[Nearest(last.file, X)][X]
        /\ \A F \in DOMAIN settings :
              ~IsAncestorOrSelf(F, last.file) =>
                 \A X \in DOMAIN settings[F] :
                    Defining(last.file, X) = {} => Get(resolved, X) = Get(DEFAULT_SETTINGS, X)

\* C2 witness: the root stores one numbering style, the folder a another, the
\* file a/x.md none, and a/x.md resolved to the folder's style.
C2_Witness ==
    /\ ResolvedWithoutBlock
    /\ last.file = "a/x.md"
    /\ Get(SettingsAt(VAULT_ROOT), "numberStyle") = "roman"
    /\ Get(SettingsAt("a"), "numberStyle") = "alph"
    /\ "numberStyle" \notin DOMAIN SettingsAt("a/x.md")
    /\ Get(SettingsAt("y.md"), "profile") = "Japanese"
    /\ resolved["numberStyle"] = "alph"
    /\ resolved["profile"] = "English"

\* C3: every key of the block override passed to resolveSettings has the
\* override's value in the result whatever the ancestor chain stores, and with
\* the override {number: "5"} the formatted title contains "5".
C3_BlockOverrideWins ==
    /\ last.op \in {"resolveSettings", "formatTitle"} =>
          \A k \in DOMAIN last.override : Get(resolved, k) = last.override[k]
    /\ (last.op = "formatTitle" /\ Get(last.override, "number") = "5") =>
          /\ title \notin {undefined, TypeError, RangeError}
          /\ Includes(title, "5")

\* C3 witness: a title was formatted for a block with number "5" in a file whose
\* folder stores the roman numbering style.
C3_Witness ==
    /\ last.op = "formatTitle"
    /\ Get(last.override, "number") = "5"
    /\ last.index = "0"
    /\ Get(SettingsAt("a"), "numberStyle") = "roman"
    /\ last.file = "a/x.md"
    /\ resolved["numberStyle"] = "roman"
    /\ resolved["number"] = "5"
    /\ Includes(title, "5")

C4_RenameCascades ==
    [][(modal = "edit" /\ modal' = "manage" /\ profiles[target].id # target
        /\ profiles[target].id # undefined) =>
          LET oldId == target
              newId == profiles[target].id
          IN /\ newId \in DOMAIN profiles'
             /\ oldId \notin DOMAIN profiles'
             /\ profiles'[newId] = profiles[oldId]
             /\ \A p \in DOMAIN settings :
                   IF Get(settings[p], "profile") = oldId
                   THEN Get(settings'[p], "profile") = newId
                   ELSE settings'[p] = settings[p]]_vars

\* A profile dialog flow is not in progress.
AtRest == modal \in {"none", "manage"}

\* C5: after any sequence of profile operations, every location whose stored
\* configuration names an active profile names an id present in the table.
C5_ReferentialIntegrity ==
    AtRest =>
        \A p \in DOMAIN settings :
            "profile" \in DOMAIN settings[p] => settings[p]["profile"] \in DOMAIN profiles

\* C6: confirming the deletion of a referenced profile removes it; with the
\* blank choice every affected location's configuration has no profile key,
\* with a chosen replacement every affected location names the replacement.
C6_DeleteReassigns ==
    last.op = "UpdateConfirm" =>
        /\ last.id \notin DOMAIN profiles
        /\ \A p \in last.referencing :
              IF last.newId = "" THEN "profile" \notin DOMAIN settings[p]
              ELSE Get(settings[p], "profile") = last.newId

\* C6 witness: a profile named by the folder a was deleted with the blank
\* choice confirmed.
C6_Witness ==
    /\ last.op = "UpdateConfirm"
    /\ last.newId = ""
    /\ "a" \in last.referencing
    /\ "profile" \notin DOMAIN settings["a"]
    /\ last.id \notin DOMAIN profiles

\* The index k of an id of the form "Copy of X (k)", 0 for any other id.
CopyIndexOf(id, X) ==
    LET prefix == "Copy of " \o X \o " ("
    IN  IF /\ Len(id) >= Len(prefix) + 2
           /\ SubSeq(id, 1, Len(prefix)) = prefix
           /\ CharAt(id, Len(id)) = ")"
           /\ CharAt(id, Len(prefix) + 1) \in NonZeroDigitChars
           /\ \A i \in (Len(prefix) + 1)..(Len(id) - 1) : CharAt(id, i) \in DigitChars
        THEN ToNumber(SubSeq(id, Len(prefix) + 1, Len(id) - 1))
        ELSE 0

\* C7: a copy of X made when no "Copy of X" exists is named "Copy of X"; a copy
\* made when "Copy of X" exists and no "Copy of X (k)" does is "Copy of X (2)".
C7_FirstAndSecondCopy ==
    last.op = "CopyClick" =>
        LET plain == "Copy of " \o last.id
        IN /\ plain \notin last.before => last.newId = plain
           /\ (plain \in last.before /\ \A id \in last.before : CopyIndexOf(id, last.id) = 0)
                 => last.newId = plain \o " (2)"

\* C8: when "Copy of X" and some "Copy of X (k)" exist, the new id is
\* "Copy of X (n)" with n one more than the largest such k; ids that are not
\* copies of X do not count.
C8_MaxPlusOneAmongCopies ==
    (last.op = "CopyClick"
     /\ ("Copy of " \o last.id) \in last.before
     /\ \E id \in last.before : CopyIndexOf(id, last.id) > 0) =>
        last.newId = "Copy of " \o last.id \o " ("
                     \o NumberToString(SetMax({CopyIndexOf(id, last.id) : id \in last.before}) + 1)
                     \o ")"

\* C9: pressing Add with an empty id (blank text or nothing typed) changes
\* neither the profile table nor any location's configuration.
C9_AddEmptyIdFails ==
    [][(modal = "add" /\ modal' # "add" /\ addText \in {undefined, ""}) =>
          (profiles' = profiles /\ settings' = settings)]_vars

\* C10: every profile of the table maps each environment kind of the closed set
\* to a string, and a profile that was just added has no tags and every kind
\* mapped to the empty string.
C10_BodyTotal ==
    /\ \A k \in DOMAIN profiles :
          /\ DOMAIN profiles[k].body = THEOREM_LIKE_ENV_IDs
          /\ \A envID \in THEOREM_LIKE_ENV_IDs :
                profiles[k].body[envID] \in STRING /\ profiles[k].body[envID] # undefined
    /\ Cardinality(THEOREM_LIKE_ENV_IDs) = 13
    /\ last.op = "AddClick" =>
          /\ profiles[ToPropertyKey(last.id)].meta.tags = <<>>
          /\ \A envID \in THEOREM_LIKE_ENV_IDs : profiles[ToPropertyKey(last.id)].body[envID] = ""

\* C10 witness: a profile named "EN" was just added to a table that also holds
\* a copy of a profile whose display name for theorems had been edited.
C10_Witness ==
    /\ last.op = "AddClick"
    /\ last.id = "EN"
    /\ "Copy of English" \in DOMAIN profiles
    /\ profiles["Copy of English"].body["theorem"] = "Satz"
    /\ profiles["EN"].body["theorem"] = ""

\* The reference pattern ^[a-z-]+$ of a tag.
IsTag(tag) ==
    /\ tag \in STRING
    /\ tag # undefined
    /\ Len(tag) > 0
    /\ \A i \in 1..Len(tag) :
          CharAt(tag, i) \in {"-", "a", "b", "c", "d", "e", "f", "g", "h", "i", "j", "k", "l",
                              "m", "n", "o", "p", "q", "r", "s", "t", "u", "v", "w", "x",
                              "y", "z"}

AllTagsValid(tags) == \A i \in 1..Len(tags) : tags[i] = "" \/ IsTag(tags[i])

\* C11: an edit of the Tags field whose trimmed items all match ^[a-z-]+$ or
\* are empty replaces the tag list with those items; any other edit shows a
\* notice and leaves the list as it was; every stored tag of every profile
\* matches the pattern or is empty.
C11_TagValidation ==
    /\ \A k \in DOMAIN profiles : AllTagsValid(profiles[k].meta.tags)
    /\ last.op = "EditTagsChange" =>
          LET items == SplitTags(last.value)
              stored == profiles[last.id].meta.tags
          IN IF AllTagsValid(items)
             THEN stored = items /\ ~last.notice
             ELSE stored = last.before /\ last.notice

\* C11 witness: the tags "en, fr-ca" were stored on the English profile and the
\* later edit "ok, x1" was rejected, leaving the two tags in place.
C11_Witness ==
    /\ last.op = "EditTagsChange"
    /\ last.id = "English"
    /\ last.value = "ok, x1"
    /\ last.notice
    /\ profiles["English"].meta.tags = <<"en", "fr-ca">>

(***************************************************************************)
(* Properties of the numeral converters and of the formatter.               *)
(***************************************************************************)
\* The reference base-26 letter enumeration: a, ..., z, aa, ab, ..., az, ba, ...
RECURSIVE RefAlphLower(_)
RefAlphLower(n) ==
    IF n <= 0 THEN ""
    ELSE RefAlphLower((n - 1) \div 26) \o CharAt(LowerAlph, ((n - 1) % 26) + 1)

RECURSIVE RefAlphUpper(_)
RefAlphUpper(n) ==
    IF n <= 0 THEN ""
    ELSE RefAlphUpper((n - 1) \div 26) \o CharAt(ALPH, ((n - 1) % 26) + 1)

\* C12: for every positive number the alph converter returns the reference
\* enumeration's string in lower case and the Alph converter in upper case
\* (27 gives "aa", 53 gives "ba"), and distinct numbers give distinct strings.
C12_AlphMatchesReference ==
    (last.op = "convert" /\ last.num >= 1) =>
        /\ last.style = "alph" => last.result = RefAlphLower(last.num)
        /\ last.style = "Alph" => last.result = RefAlphUpper(last.num)
        /\ (last.style \in {"alph", "Alph"} /\ last.num <= MaxAlph) =>
              \A m \in 1..MaxAlph : m # last.num => CONVERTER(last.style, m) # last.result

\* The display string of the active profile for the block's kind.
DisplayString(s) == profiles[s["profile"]].body[s["type"]]

FormattedAuto ==
    /\ last.op = "formatTitle"
    /\ Get(resolved, "number") = "auto"
    /\ last.index # undefined
    /\ Get(resolved, "profile") \in DOMAIN profiles
    /\ Get(resolved, "type") \in THEOREM_LIKE_ENV_IDs

\* C13: with number "auto" and sequence index i the title is the active
\* profile's display string for the kind, a space, numberPrefix, the numeral of
\* i + numberInit in the resolved style, and numberSuffix; kind theorem under
\* the English profile with style roman gives "Theorem I" for index 0 and
\* "Theorem III" for index 2.
C13_AutoTitle ==
    FormattedAuto =>
        /\ title = DisplayString(resolved) \o " " \o resolved["numberPrefix"]
                   \o CONVERTER(resolved["numberStyle"],
                                SignedToNumber(last.index) + SignedToNumber(resolved["numberInit"]))
                   \o resolved["numberSuffix"]
        /\ (resolved["type"] = "theorem" /\ resolved["profile"] = "English"
            /\ resolved["numberStyle"] = "roman" /\ resolved["numberInit"] = "1") =>
              /\ last.index = "0" => title = "Theorem I"
              /\ last.index = "2" => title = "Theorem III"

\* The standard subtractive Roman numeral, by the greedy reference rule.
RomanValues == <<1000, 900, 500, 400, 100, 90, 50, 40, 10, 9, 5, 4, 1>>
RomanSymbols == <<"M", "CM", "D", "CD", "C", "XC", "L", "XL", "X", "IX", "V", "IV", "I">>

RECURSIVE RefRoman(_, _)
RefRoman(n, k) ==
    IF n <= 0 THEN ""
    ELSE IF n >= RomanValues[k] THEN RomanSymbols[k] \o RefRoman(n - RomanValues[k], k)
    ELSE RefRoman(n, k + 1)

\* The numbers standard Roman notation covers.
RomanRange == 1..3999

\* C14: for every number from 1 to 3999 the Roman converter returns the
\* standard subtractive numeral, and the roman converter its lower-case form.
C14_RomanStandard ==
    (last.op = "convert" /\ last.num \in RomanRange) =>
        /\ last.style = "Roman" => last.result = RefRoman(last.num, 1)
        /\ last.style = "roman" => last.result = toLowerCase(RefRoman(last.num, 1))

\* C14 witness: the Roman converter was applied to 1994 and returned MCMXCIV.
C14_Witness ==
    /\ last.op = "convert"
    /\ last.style = "Roman"
    /\ last.num = 1994
    /\ last.result = "MCMXCIV"

\* C15: for a number that is zero or negative every converter signals an
\* error instead of returning a string.
C15_NonPositiveFailsFast ==
    (last.op = "convert" /\ last.num <= 0) => last.result \in {RangeError, TypeError}

\* C16: a number that is a non-empty literal other than "auto" appears in the
\* title verbatim between numberPrefix and numberSuffix, whatever the sequence
\* index, numberInit and numberStyle are; with an empty or unset number the
\* title is the kind's name alone, without number, prefix or suffix.
C16_NumberStringChoice ==
    last.op = "formatTitle" =>
        LET number == Get(resolved, "number")
            typeName == formatMathCalloutType(resolved)
        IN /\ number \notin {undefined, "", "auto"} =>
                 title = Str(typeName) \o " " \o resolved["numberPrefix"] \o number
                         \o resolved["numberSuffix"]
           /\ number \in {undefined, ""} => title = typeName

\* C16 witness: the literal number "A.1" was formatted between "(" and ")" with
\* sequence index 2 in a file whose folder stores the roman style.
C16_Witness ==
    /\ last.op = "formatTitle"
    /\ last.index = "2"
    /\ last.file = "a/x.md"
    /\ Get(resolved, "number") = "A.1"
    /\ Get(resolved, "numberStyle") = "roman"
    /\ Includes(title, " (A.1)")
    /\ ~Includes(title, "iii")

C18_PreviewIsLabel ==
    (last.op = "formatLabel" /\ last.label \notin {undefined, ""}) =>
        last.preview = last.result

(***************************************************************************)
(* Properties of the post-processor.                                        *)
(***************************************************************************)
\* C20: a pass over an element lets no error escape, and every math callout of
\* the element whose embedded configuration parses is rendered, whatever the
\* other callouts of the element hold.
C20_UnparseableSkipped ==
    last.op = "postProcess" =>
        /\ last.error = undefined
        /\ \A i \in 1..Len(last.callouts) :
              (/\ toLowerCase(last.callouts[i].type) = "math"
               /\ last.callouts[i].metadata # null
               /\ JSONParse(last.callouts[i].metadata).error = undefined)
                 => i \in last.rendered

(***************************************************************************)
(* Properties of persistence and of the registry's steps.                   *)
(***************************************************************************)
\* C21: every handler that changes a stored configuration or the profile
\* table leaves a saved blob that holds the configurations and the profile
\* table as they are in memory when the handler returns.
C21_SaveAfterMutation ==
    [][(settings' # settings \/ profiles' # profiles) =>
          /\ data'.present
          /\ data'.settings = settings'
          /\ "profiles" \in DOMAIN data'
          /\ data'.profiles = profiles']_vars

\* C22: between any two handlers the key of every profile of the table is the
\* id recorded inside the profile, so a rename is seen either not at all or
\* with the table re-keyed and the references moved.
C22_RenameAtomic ==
    \A k \in DOMAIN profiles : profiles[k].id = k

\* C23: when EditProfileModal closes, the table has as many profiles as before
\* and every profile other than the edited one is still stored under its own
\* key, unchanged, also when the new id is the id of another profile.
C23_RenameKeepsOthers ==
    [][(modal = "edit" /\ modal' = "manage") =>
          /\ Cardinality(DOMAIN profiles') = Cardinality(DOMAIN profiles)
          /\ \A k \in (DOMAIN profiles) \ {target} :
                k \in DOMAIN profiles' /\ profiles'[k] = profiles[k]]_vars

\* C24: the id makeIdOfCopy returns is not a key of the table it was given, so
\* a copy adds exactly one profile and overwrites none.
C24_CopyIdFresh ==
    last.op = "CopyClick" =>
        /\ last.newId \notin last.before
        /\ DOMAIN profiles = last.before \cup {last.newId}
        /\ Cardinality(DOMAIN profiles) = Cardinality(last.before) + 1

\* C25: the global default configuration is never modified: whatever was
\* loaded and whatever the dialogs did, DEFAULT_SETTINGS still has the values
\* its defining module gave it.
C25_DefaultsNeverModified == DEFAULT_SETTINGS = InitialDefaultSettings

(***************************************************************************)
(* Calls of isEqualToOrChildOf and getAncestors, one loop iteration a step. *)
(***************************************************************************)
\* The frame of a call of isEqualToOrChildOf that returned.
ChildReturn(file1, file2, result) ==
    [op |-> "isEqualToOrChildOf", file1 |-> file1, file2 |-> file2, pc |-> "return",
     result |-> result]

\* A call is inside a loop.
Running == last.op \in {"isEqualToOrChildOf", "getAncestors"} /\ last.pc = "loop"

\* isEqualToOrChildOf up to its loop: the two early returns, then
\* ancestor = file1.parent.
ChildCall(file1, file2) ==
    /\ Budget
    /\ ~Running
    /\ nOps' = nOps + 1
    /\ last' = IF file1 = file2 THEN ChildReturn(file1, file2, TRUE)
               ELSE IF IsFolder(file2) /\ IsRoot(file2) THEN ChildReturn(file1, file2, TRUE)
               ELSE [op |-> "isEqualToOrChildOf", file1 |-> file1, file2 |-> file2,
                     pc |-> "loop", ancestor |-> Parent(file1)]
    /\ UNCHANGED <<settingsVars, profiles, uiVars, hostVars, callVars>>

\* One iteration of while (true): return true on file2, return false on the
\* root, move to the parent otherwise; a null ancestor passes both ifs and the
\* iteration changes nothing.
ChildLoop ==
    /\ Running
    /\ last.op = "isEqualToOrChildOf"
    /\ last' = IF last.ancestor = last.file2 THEN ChildReturn(last.file1, last.file2, TRUE)
               ELSE IF last.ancestor # null
                    THEN IF IsRoot(last.ancestor)
                         THEN ChildReturn(last.file1, last.file2, FALSE)
                         ELSE [last EXCEPT !.ancestor = Parent(last.ancestor)]
                    ELSE last
    /\ UNCHANGED <<settingsVars, profiles, uiVars, hostVars, callVars, counterVars>>

\* getAncestors up to its loop: ancestors = [], ancestor = file.
AncestorsCall(file) ==
    /\ Budget
    /\ ~Running
    /\ nOps' = nOps + 1
    /\ last' = [op |-> "getAncestors", file |-> file, pc |-> "loop", ancestor |-> file,
                ancestors |-> <<>>]
    /\ UNCHANGED <<settingsVars, profiles, uiVars, hostVars, callVars>>

\* One test of while (ancestor) with its body, or the reverse and the return
\* once the loop is left.
AncestorsStep ==
    /\ Running
    /\ last.op = "getAncestors"
    /\ last' = IF last.ancestor = null
               THEN [op |-> "getAncestors", file |-> last.file, pc |-> "return",
                     result |-> Reverse(last.ancestors)]
               ELSE LET pushed == Append(last.ancestors, last.ancestor)
                    IN IF IsFolder(last.file) /\ IsRoot(last.file)
                       THEN [op |-> "getAncestors", file |-> last.file, pc |-> "return",
                             result |-> Reverse(pushed)]
                       ELSE [last EXCEPT !.ancestor = Parent(last.ancestor),
                                         !.ancestors = pushed]
    /\ UNCHANGED <<settingsVars, profiles, uiVars, hostVars, callVars, counterVars>>

InitChild == Loaded(NoData)

NextChild ==
    \/ \E file1 \in Paths, file2 \in Paths : ChildCall(file1, file2)
    \/ ChildLoop
    \/ \E file \in Paths : AncestorsCall(file)
    \/ AncestorsStep

SpecChild == InitChild /\ [][NextChild]_vars

\* The nodes from p up to the root.
RECURSIVE UpToRoot(_)
UpToRoot(p) == IF p = null THEN {} ELSE {p} \cup UpToRoot(Parent(p))

\* C26: a call of isEqualToOrChildOf or getAncestors that is inside its loop
\* can always take an iteration that changes its state (it returns or moves
\* one node up), so that no call spins forever, also not when file1 is the
\* vault root and file2 is not; isEqualToOrChildOf returns true exactly when
\* file2 is file1 or an ancestor of file1, and getAncestors returns the chain
\* from the root down to the file.
C26_ChildOfTerminates ==
    /\ Running => ENABLED <<ChildLoop \/ AncestorsStep>>_vars
    /\ (last.op = "isEqualToOrChildOf" /\ last.pc = "return") =>
          (last.result <=> last.file2 \in UpToRoot(last.file1))
    /\ (last.op = "getAncestors" /\ last.pc = "return") =>
          /\ last.result[1] = VAULT_ROOT
          /\ last.result[Len(last.result)] = last.file
          /\ \A i \in 2..Len(last.result) : Parent(last.result[i]) = last.result[i - 1]

(***************************************************************************)
(* The active view, metadata-change events and the active-file indexer.     *)
(***************************************************************************)
\* The run of new ActiveFileIndexer(app, plugin, view).run(cache).
IndexerRun(by, view, cache) ==
    [op |-> "ActiveFileIndexer.run", by |-> by, view |-> view, cache |-> cache]

\* The user activates another markdown view, or a view that is not markdown.
ActiveLeafChange(file) ==
    /\ Budget
    /\ file # activeFile
    /\ activeFile' = file
    /\ nOps' = nOps + 1
    /\ last' = [op |-> "active-leaf-change", file |-> file]
    /\ UNCHANGED <<settingsVars, profiles, uiVars, data, fileCache, callVars>>

\* The host re-indexes a file (or drops the cache of a deleted file, whose
\* view closes) and fires "dataview:metadata-change"; the handler takes the
\* active markdown view and getFileCache(file), and runs the indexer when
\* both are there.
MetadataChange(type, file) ==
    /\ Budget
    /\ nOps' = nOps + 1
    /\ LET cache == IF type = "delete" THEN NoFileCache ELSE FileCacheOf(file, nOps')
           view == IF type = "delete" /\ activeFile = file THEN null ELSE activeFile
       IN /\ fileCache' = [fileCache EXCEPT ![file] = cache]
          /\ activeFile' = view
          /\ last' = IF view # null /\ cache.present
                     THEN IndexerRun("metadata-change", view, cache)
                     ELSE [op |-> "metadata-change", type |-> type, file |-> file]
    /\ UNCHANGED <<settingsVars, profiles, uiVars, data, callVars>>

\* "Open Local Settings for the Current Note": the modal's callback runs the
\* indexer on the view the command found, with getCache(view.file.path).
LocalSettingsCommand ==
    /\ Budget
    /\ activeFile # null
    /\ nOps' = nOps + 1
    /\ last' = IF fileCache[activeFile].present
               THEN IndexerRun("open-local-settings", activeFile, fileCache[activeFile])
               ELSE [op |-> "open-local-settings", file |-> activeFile]
    /\ UNCHANGED <<settingsVars, profiles, uiVars, hostVars, callVars>>

MetadataChangeTypes == {"update", "delete"}

InitIndex == Loaded(NoData)

NextIndex ==
    \/ \E file \in MarkdownFiles \cup {null} : ActiveLeafChange(file)
    \/ \E type \in MetadataChangeTypes, file \in MarkdownFiles : MetadataChange(type, file)
    \/ LocalSettingsCommand

SpecIndex == InitIndex /\ [][NextIndex]_vars

\* C27: whenever the metadata-change handler runs the active-file indexer,
\* the cache it passes is the cache of the file shown in the active view.
C27_IndexerCacheOfView ==
    (last.op = "ActiveFileIndexer.run" /\ last.by = "metadata-change") =>
        last.cache.file = last.view

====
